---- MODULE Spec2Model ----
(***************************************************************************)
(* A model of mudv2: a telnet server in which every connection runs the    *)
(* task `process` (src/src/main.rs), all tasks share one `Shared` world    *)
(* state behind a tokio Mutex (src/src/shared.rs), and every session       *)
(* renders the world into its own Canvas (src/src/canvas.rs).              *)
(***************************************************************************)
EXTENDS Integers, Sequences, FiniteSets, Bags, TLC

(***************************************************************************)
(* Bounds of the model.                                                    *)
(***************************************************************************)
\* total number of movement actions read from all connections
MaxMoves == 2

\* the socket addresses of the connections the listener accepts; an address
\* (with its ephemeral port) connects once
Addrs == {"a1", "a2"}

(***************************************************************************)
(* Values.                                                                 *)
(***************************************************************************)
\* telnet requests written by process (main.rs:47-54)
EchoRequest ==
    [kind |-> "echo",
     bytes |-> <<255, 253, 34, 255, 250, 34, 1, 0, 255, 240, 255, 251, 1>>]
NawsRequest == [kind |-> "naws", bytes |-> <<255, 253, 31>>]

\* canvas::clear_screen / canvas::restore_screen: the queued commands
ClearScreenBytes ==
    [kind |-> "setup", bytes |-> <<"EnterAlternateScreen", "Hide", "MoveTo(0,0)">>]
RestoreScreenBytes ==
    [kind |-> "teardown", bytes |-> <<"LeaveAlternateScreen", "Show">>]

\* the bytes handle_event returns, as process sends them
RenderBytes(bytes) == [kind |-> "frame", bytes |-> bytes]

\* reply frames a client may send to the negotiation requests
NawsTrailer(wh, wl, hh, hl) == <<255, 250, 31, wh, wl, hh, hl, 255, 240>>
ReplyFrames ==
    { NawsTrailer(0, 2, 0, 2),
      <<255, 251, 31>> \o NawsTrailer(0, 2, 0, 2),
      <<255, 251, 31>> }

\* what stream.next() can yield: Some(Ok(bytes)), Some(Err(e)) or None
ReadErr == [kind |-> "Err"]
ReadEof == [kind |-> "None"]
ReadOk(bytes) == [kind |-> "Ok", bytes |-> bytes]

\* payloads a client may send during the session
\* w, a, s, d, ESC, an unknown key, an empty frame and a two-byte frame
InputFrames ==
    { <<119>>, <<97>>, <<115>>, <<100>>, <<27>>, <<120>>, <<>>, <<119, 119>> }

Moves == {"MoveUp", "MoveDown", "MoveLeft", "MoveRight"}

(***************************************************************************)
(* canvas.rs: Style, Cell, RenderBuffer, Canvas.                           *)
(***************************************************************************)
DefaultStyle == [fg |-> "None", bg |-> "None", bold |-> FALSE, italic |-> FALSE]

DefaultCell == [ch |-> " ", style |-> DefaultStyle]

\* RenderBuffer::new; data[i + 1] is the cell of row-major index i
RenderBufferNew(width, height) ==
    [width |-> width, height |-> height,
     data |-> [i \in 1..(width * height) |-> DefaultCell]]

\* coord_to_idx, checking the row only
coord_to_idx_row(buf, x, y) ==
    IF y >= buf.height
    THEN [tag |-> "Panic"]
    ELSE [tag |-> "Ok", idx |-> y * buf.width + x]

\* RenderBuffer::coord_to_idx: panics outside the buffer
coord_to_idx(buf, x, y) ==
    IF x >= buf.width \/ y >= buf.height
    THEN [tag |-> "Panic"]
    ELSE [tag |-> "Ok", idx |-> y * buf.width + x]

\* RenderBuffer::clear
clear(buf) ==
    [buf EXCEPT !.data = [i \in 1..(buf.width * buf.height) |-> DefaultCell]]

\* Option<&Style>: None, or Some(style)
None == {}
Some(style) == {style}
unwrap_or(opt, default) == IF opt = None THEN default ELSE CHOOSE s \in opt : TRUE

\* RenderBuffer::set_char
set_char(buf, ch, style, x, y) ==
    LET at == coord_to_idx(buf, x, y) IN
    IF at.tag = "Panic" THEN [tag |-> "Panic"]
    ELSE IF at.idx + 1 \notin DOMAIN buf.data
    THEN [tag |-> "Err", err |-> "Coords out of range."]
    ELSE [tag |-> "Ok",
          buf |-> [buf EXCEPT !.data[at.idx + 1] =
                      [ch |-> ch,
                       style |-> unwrap_or(style, DefaultStyle)]]]

\* RenderBuffer::cell_at
cell_at(buf, x, y) ==
    LET at == coord_to_idx(buf, x, y) IN
    IF at.tag = "Panic" THEN [tag |-> "Panic"]
    ELSE [tag |-> "Ok", cell |-> buf.data[at.idx + 1]]

\* a call of set_char after the calls that gave r, as `self.set_char(..)?`
\* leaves them: the buffer is left as it is when the call does not return Ok
Then(r, ch, style, x, y) ==
    IF r.tag # "Ok" THEN r
    ELSE LET s == set_char(r.buf, ch, style, x, y)
         IN IF s.tag = "Ok" THEN s ELSE [tag |-> s.tag, buf |-> r.buf]

\* the loop `for (i, ch) in text.chars().enumerate()` of set_text from the
\* i-th character on (i from 1)
RECURSIVE SetTextFrom(_, _, _, _, _, _)
SetTextFrom(r, text, style, x, y, i) ==
    IF i > Len(text) \/ r.tag # "Ok" THEN r
    ELSE SetTextFrom(Then(r, text[i], style, x + (i - 1), y), text, style, x, y, i + 1)

\* set_text, refusing the text that ends at the right edge too
set_text_strict(buf, text, style, x, y) ==
    IF x + Len(text) >= buf.width
    THEN [tag |-> "Err", buf |-> buf]
    ELSE SetTextFrom([tag |-> "Ok", buf |-> buf], text, style, x, y, 1)

\* RenderBuffer::set_text; text is the sequence text.chars()
set_text(buf, text, style, x, y) ==
    IF x + Len(text) > buf.width
    THEN [tag |-> "Err", buf |-> buf]
    ELSE SetTextFrom([tag |-> "Ok", buf |-> buf], text, style, x, y, 1)

\* the glyphs of draw_border, named by their code points
Horizontal == "U+2500"
Vertical == "U+2502"
TopLeft == "U+250C"
TopRight == "U+2510"
BottomRight == "U+2518"
BottomLeft == "U+2514"

\* usize::MAX stands at the largest integer of the model: every use of a
\* wrapped value compares it with a dimension of the buffer
UsizeMax == 2147483647

\* the builds: with and without overflow checks
Builds == {"debug", "release"}

\* `a - b` on usize: an underflow panics in a build with overflow checks and
\* wraps around in one without
usize_sub(a, b, build) ==
    IF a >= b THEN [tag |-> "Ok", val |-> a - b]
    ELSE IF build = "debug" THEN [tag |-> "Panic"]
    ELSE [tag |-> "Ok", val |-> UsizeMax - (b - a) + 1]

\* draw_border: `for i in x + 1..x + width - 1 { .. }` from i on; `to` is the
\* end of the range, `bottom` is what `y + height - 1` gives in the body
RECURSIVE BorderRows(_, _, _, _, _, _)
BorderRows(r, i, to, y, bottom, style) ==
    IF i >= to \/ r.tag # "Ok" THEN r
    ELSE LET upper == Then(r, Horizontal, style, i, y)
         IN IF upper.tag # "Ok" THEN upper
            ELSE IF bottom.tag = "Panic" THEN [tag |-> "Panic", buf |-> upper.buf]
            ELSE BorderRows(Then(upper, Horizontal, style, i, bottom.val),
                            i + 1, to, y, bottom, style)

\* draw_border: `for j in y + 1..y + height - 1 { .. }` from j on; `right` is
\* the value of `x + width - 1`
RECURSIVE BorderColumns(_, _, _, _, _, _)
BorderColumns(r, j, to, x, right, style) ==
    IF j >= to \/ r.tag # "Ok" THEN r
    ELSE BorderColumns(Then(Then(r, Vertical, style, x, j), Vertical, style, right, j),
                       j + 1, to, x, right, style)

\* RenderBuffer::draw_border in the given build; the buffer of the result is
\* the buffer as the call leaves it
draw_border(buf, x, y, width, height, style, build) ==
    IF x + width > buf.width \/ y + height > buf.height
    THEN [tag |-> "Err", buf |-> buf]
    ELSE LET right  == usize_sub(x + width, 1, build)
             bottom == usize_sub(y + height, 1, build)
         IN IF right.tag = "Panic" THEN [tag |-> "Panic", buf |-> buf]
            ELSE LET rows == BorderRows([tag |-> "Ok", buf |-> buf], x + 1, right.val,
                                        y, bottom, style)
                 IN IF rows.tag # "Ok" THEN rows
                    ELSE IF bottom.tag = "Panic" THEN [tag |-> "Panic", buf |-> rows.buf]
                    ELSE LET columns == BorderColumns(rows, y + 1, bottom.val, x,
                                                      right.val, style)
                             tl == Then(columns, TopLeft, style, x, y)
                             tr == Then(tl, TopRight, style, right.val, y)
                             br == Then(tr, BottomRight, style, right.val, bottom.val)
                         IN Then(br, BottomLeft, style, x, bottom.val)

\* RenderBuffer::diff: the loops `for y in 0..height { for x in 0..width {..} }`
\* from (x, y) on; it panics when cell_at panics on `other`
RECURSIVE DiffFrom(_, _, _, _)
DiffFrom(self, other, x, y) ==
    IF y >= self.height THEN [tag |-> "Ok", changes |-> <<>>]
    ELSE IF x >= self.width THEN DiffFrom(self, other, 0, y + 1)
    ELSE LET current_cell == cell_at(self, x, y)
             other_cell   == cell_at(other, x, y)
             rest         == DiffFrom(self, other, x + 1, y)
         IN IF other_cell.tag = "Panic" \/ rest.tag = "Panic"
            THEN [tag |-> "Panic"]
            ELSE IF current_cell.cell # other_cell.cell
            THEN [tag |-> "Ok",
                  changes |-> <<[cell |-> current_cell.cell, x |-> x, y |-> y]>>
                              \o rest.changes]
            ELSE rest

\* diff, with the two buffers the other way round
diff_of_other(self, other) == DiffFrom(other, self, 0, 0)

\* RenderBuffer::diff
diff(self, other) == DiffFrom(self, other, 0, 0)

\* EmitChange, with the row and the column counted from 0
EmitChangeFromZero(change) ==
    [row  |-> change.y,
     col  |-> change.x,
     fg   |-> IF change.cell.style.fg = "None" THEN "Reset" ELSE change.cell.style.fg,
     bg   |-> IF change.cell.style.bg = "None" THEN "Reset" ELSE change.cell.style.bg,
     attr |-> IF change.cell.style.bold THEN "Bold" ELSE "NormalIntensity",
     ch   |-> change.cell.ch]

\* the commands Canvas::redraw queues for one BufferChange; crossterm's
\* MoveTo(column, row) is written as the 1-based "ESC [ row ; column H"
EmitChange(change) ==
    [row  |-> change.y + 1,
     col  |-> change.x + 1,
     fg   |-> IF change.cell.style.fg = "None" THEN "Reset" ELSE change.cell.style.fg,
     bg   |-> IF change.cell.style.bg = "None" THEN "Reset" ELSE change.cell.style.bg,
     attr |-> IF change.cell.style.bold THEN "Bold" ELSE "NormalIntensity",
     ch   |-> change.cell.ch]

EmitChanges(changes) == [i \in 1..Len(changes) |-> EmitChange(changes[i])]

\* the closure handle_event passes to redraw, after its clear: one '@' per
\* location, `?` leaving at the first error. set_char at one location does not
\* depend on the others, so the locations are taken in any order
RECURSIVE MarkPeers(_, _)
MarkPeers(buf, locations) ==
    IF locations = {} THEN [tag |-> "Ok", buf |-> buf]
    ELSE LET location == CHOOSE l \in locations : TRUE
             r == set_char(buf, "@", None, location[1], location[2])
         IN IF r.tag = "Ok" THEN MarkPeers(r.buf, locations \ {location}) ELSE r

\* handle_event (with Canvas::redraw): the new buffer and the bytes to send,
\* or Panic (coord_to_idx, or the unwrap of redraw's result)
handle_event(ev, buffer) ==
    LET old_buffer == buffer
        drawn      == MarkPeers(clear(buffer), BagToSet(ev.pos))
    IN IF drawn.tag # "Ok" THEN [tag |-> "Panic"]
       ELSE LET d == diff(drawn.buf, old_buffer)
            IN IF d.tag = "Panic" THEN [tag |-> "Panic"]
               ELSE [tag |-> "Ok", buf |-> drawn.buf,
                     bytes |-> EmitChanges(d.changes)]

(***************************************************************************)
(* main.rs: get_telnet_size.                                               *)
(***************************************************************************)
NawsLen == 9

\* `(hi as u16) << 8 | lo as u16`
U16FromBytes(hi, lo) == ((hi * 256) % 65536) + lo

\* get_telnet_size, reading the window size off the first nine bytes
get_telnet_size_head(bytes) ==
    LET len == Len(bytes) IN
    IF len < NawsLen THEN [tag |-> "Panic"]
    ELSE LET naws == SubSeq(bytes, 1, NawsLen)
         IN [tag |-> "Ok",
             width  |-> U16FromBytes(naws[4], naws[5]),
             height |-> U16FromBytes(naws[6], naws[7])]

\* get_telnet_size: the slice bytes[len - 9..] panics when len < 9
get_telnet_size(bytes) ==
    LET len == Len(bytes) IN
    IF len < NawsLen THEN [tag |-> "Panic"]
    ELSE LET naws == SubSeq(bytes, len - NawsLen + 1, len)
         IN [tag |-> "Ok",
             width  |-> U16FromBytes(naws[4], naws[5]),
             height |-> U16FromBytes(naws[6], naws[7])]

(***************************************************************************)
(* peer.rs: Peer::handle_input.                                            *)
(***************************************************************************)
\* handle_input, going by the first byte of the payload
handle_input_first_byte(input) ==
    IF input = <<>> THEN "None"
    ELSE IF Head(input) = 27 THEN "Quit"
    ELSE IF Head(input) = 119 THEN "MoveUp"
    ELSE IF Head(input) = 97 THEN "MoveLeft"
    ELSE IF Head(input) = 100 THEN "MoveRight"
    ELSE IF Head(input) = 115 THEN "MoveDown"
    ELSE "None"

\* Peer::handle_input: `match input.as_ref()`; "None" is Option::None
handle_input(input) ==
    IF input = <<27>> THEN "Quit"
    ELSE IF input = <<119>> THEN "MoveUp"
    ELSE IF input = <<97>> THEN "MoveLeft"
    ELSE IF input = <<100>> THEN "MoveRight"
    ELSE IF input = <<115>> THEN "MoveDown"
    ELSE "None"

(***************************************************************************)
(* shared.rs: Shared (World State).                                        *)
(***************************************************************************)
\* add_peer, putting every peer of the map back at the origin
add_peer_reset(ps, socket_addr) ==
    [a \in DOMAIN ps \cup {socket_addr} |-> [state |-> "Playing", position |-> <<0, 0>>]]

\* Shared::add_peer: HashMap::insert of a PeerData (its tx is the sending end
\* of chan[socket_addr])
add_peer(ps, socket_addr) ==
    [a \in DOMAIN ps \cup {socket_addr} |->
        IF a = socket_addr
        THEN [state |-> "Playing", position |-> <<0, 0>>]
        ELSE ps[a]]

\* remove_peer, leaving the entry in the map
remove_peer_noop(ps, socket_addr) == ps

\* Shared::remove_peer: HashMap::remove
remove_peer(ps, socket_addr) ==
    [a \in DOMAIN ps \ {socket_addr} |-> ps[a]]

\* NewPosition, without the checks for coordinate 0
NewPositionUnclamped(position, input) ==
    CASE input = "MoveUp" -> <<position[1], position[2] - 1>>
      [] input = "MoveDown" -> <<position[1], position[2] + 1>>
      [] input = "MoveLeft" -> <<position[1] - 1, position[2]>>
      [] input = "MoveRight" -> <<position[1] + 1, position[2]>>
      [] OTHER -> position

\* the `match input` of Shared::move_peer (positions are usize; the bounds of
\* the model keep them far from usize::MAX)
NewPosition(position, input) ==
    LET old_x == position[1]
        old_y == position[2]
    IN CASE input = "MoveUp" ->
                IF position[2] = 0 THEN <<old_x, 0>> ELSE <<old_x, old_y - 1>>
         [] input = "MoveDown" -> <<old_x, old_y + 1>>
         [] input = "MoveLeft" ->
                IF position[1] = 0 THEN <<0, old_y>> ELSE <<old_x - 1, old_y>>
         [] input = "MoveRight" -> <<old_x + 1, old_y>>
         [] OTHER -> position

\* the positions collected by `self.peers.iter().map(..).collect()`: one per
\* peer, in the iteration order of the HashMap. No reader of a Room Event
\* depends on that order, and the model keeps the collection up to order: the
\* bag of the positions
Positions(ps) ==
    [p \in {ps[a].position : a \in DOMAIN ps} |->
        Cardinality({a \in DOMAIN ps : ps[a].position = p})]

\* the peers whose `data.tx.send(..)` returns Err in Shared::broadcast: the
\* receiving end was dropped
SendFails(ps, closed) == DOMAIN ps \cap closed

\* Shared::broadcast: an unbounded send of a clone to every peer; the result of
\* every send is dropped (`let _ =`)
broadcast(ps, ch, closed, ev) ==
    [a \in DOMAIN ch |->
        IF a \in DOMAIN ps /\ a \notin closed THEN Append(ch[a], ev) ELSE ch[a]]

\* MoveResult, had broadcast propagated the error of a failed send
MoveResultPropagated(failed) == IF failed = {} THEN "Ok" ELSE "Err"

\* what Shared::move_peer returns once the event went out
MoveResult(failed) == "Ok"

\* Shared::move_peer on a registered peer: the updated map
move_peer(ps, socket_addr, input) ==
    [ps EXCEPT ![socket_addr].position = NewPosition(ps[socket_addr].position, input)]

(***************************************************************************)
(* The state.                                                              *)
(***************************************************************************)
VARIABLES
    pc,         \* where each connection's task is in main / process
    lock,       \* the holder of the Mutex around Shared: {} or {addr}
    peers,      \* Shared.peers: registered address -> PeerData
    chan,       \* per address, the queue of its unbounded mpsc channel
    size,       \* per address, (width, height) of process
    event,      \* per address, the input read in the loop that is being acted on
    canvas,     \* per address, Canvas.buffer
    out,        \* per address, what the task passed to stream.send, in order
    received,   \* per address, the ids of the events taken off peer.rx
    seq,        \* number of Room Events produced so far (the id of the last)
    lastFailed, \* the peers whose send failed in the last broadcast
    buf,        \* a RenderBuffer of its own, for the calls on canvas.rs
    prev,       \* the clone of buf taken last (old_buffer of Canvas::redraw)
    call        \* the call made last outside a session's steps, with its result

vars == <<pc, lock, peers, chan, size, event, canvas, out, received, seq, lastFailed,
          buf, prev, call>>

\* what the steps of the sessions leave alone
unitVars == <<buf, prev, call>>

\* no call made yet
NoCall == [op |-> "none"]

\* the task has returned or panicked: its Peer, and with it the receiving end
\* of the channel, is dropped
Returned == {"ok", "err_handshake", "err_negotiation", "err_teardown"}
Panicked == {"panic_handshake", "panic_bounds", "panic_send", "panic_move", "panic_remove"}
Terminated == Returned \cup Panicked

Closed == { a \in Addrs : pc[a] \in Terminated }

\* the places where a task waits for or holds the lock on Shared
LockPlaces == {"register", "move", "deregister"}

\* no connection accepted yet
InitSessions ==
    /\ pc = [a \in Addrs |-> "idle"]
    /\ lock = {}
    /\ peers = << >>
    /\ chan = [a \in Addrs |-> <<>>]
    /\ size = [a \in Addrs |-> <<0, 0>>]
    /\ event = [a \in Addrs |-> "NoInput"]
    /\ canvas = [a \in Addrs |-> RenderBufferNew(0, 0)]
    /\ out = [a \in Addrs |-> <<>>]
    /\ received = [a \in Addrs |-> <<>>]
    /\ seq = 0
    /\ lastFailed = {}

Init ==
    /\ InitSessions
    /\ buf = RenderBufferNew(0, 0)
    /\ prev = RenderBufferNew(0, 0)
    /\ call = NoCall

(***************************************************************************)
(* main.rs: main and process, one action per step between two awaits.      *)
(***************************************************************************)
\* `stream.send(..).await`: what is sent is appended to the connection's output
Send(a, bytes) == out' = [out EXCEPT ![a] = Append(@, bytes)]

\* Unlock, with the guard kept alive by the task
UnlockLate(a) == {a}

\* the MutexGuard is dropped at the end of the statement or block
Unlock(a) == {}

\* the task goes to `to`; when it returns or panicks there its locals are
\* dropped: width and height, the canvas, the event read last, and the Peer
\* with peer.rx and what is still queued in it
Goto(a, to, sz, ev, cv, ch) ==
    /\ pc' = [pc EXCEPT ![a] = to]
    /\ size' = [size EXCEPT ![a] = IF to \in Terminated THEN <<0, 0>> ELSE sz]
    /\ event' = [event EXCEPT ![a] = IF to \in Terminated THEN "NoInput" ELSE ev]
    /\ canvas' = [canvas EXCEPT ![a] =
                     IF to \in Terminated THEN RenderBufferNew(0, 0) ELSE cv]
    /\ chan' = [ch EXCEPT ![a] = IF to \in Terminated THEN <<>> ELSE @]

\* the task goes to `to` with its locals as they are
Step(a, to) == Goto(a, to, size[a], event[a], canvas[a], chan)

\* main: listener.accept() and tokio::spawn(process(..))
Accept(a) ==
    /\ pc[a] = "idle"
    /\ Step(a, "send_echo")
    /\ UNCHANGED <<lock, peers, out, received, seq, lastFailed>>
    /\ UNCHANGED unitVars

\* process: send the echo / character mode request; `?` returns the error
SendEcho(a) ==
    /\ pc[a] = "send_echo"
    /\ Send(a, EchoRequest)
    /\ \E ok \in BOOLEAN : Step(a, IF ok THEN "send_naws" ELSE "err_handshake")
    /\ UNCHANGED <<lock, peers, received, seq, lastFailed>>
    /\ UNCHANGED unitVars

\* process: send the NAWS request
SendNaws(a) ==
    /\ pc[a] = "send_naws"
    /\ Send(a, NawsRequest)
    /\ \E ok \in BOOLEAN : Step(a, IF ok THEN "read_reply" ELSE "err_handshake")
    /\ UNCHANGED <<lock, peers, received, seq, lastFailed>>
    /\ UNCHANGED unitVars

\* ReplyOutcome, going on with the session when no frame was read
ReplyOutcomeLenient(res) ==
    IF res.kind = "Ok"
    THEN IF get_telnet_size(res.bytes).tag = "Ok" THEN "setup" ELSE "panic_handshake"
    ELSE "setup"

\* process: `match stream.next().await` of the handshake: where the task goes
ReplyOutcome(res) ==
    IF res.kind = "Ok"
    THEN IF get_telnet_size(res.bytes).tag = "Ok" THEN "setup" ELSE "panic_handshake"
    ELSE "err_negotiation"

\* process: `let (width, height) = ..`, set when get_telnet_size returns Ok
NegotiatedSize(res, unset) ==
    IF res.kind = "Ok" /\ get_telnet_size(res.bytes).tag = "Ok"
    THEN <<get_telnet_size(res.bytes).width, get_telnet_size(res.bytes).height>>
    ELSE unset

\* process: read the reply to the negotiation
ReadReply(a) ==
    /\ pc[a] = "read_reply"
    /\ \E res \in {ReadOk(f) : f \in ReplyFrames} \cup {ReadErr, ReadEof} :
          Goto(a, ReplyOutcome(res), NegotiatedSize(res, size[a]),
               event[a], canvas[a], chan)
    /\ UNCHANGED <<lock, peers, out, received, seq, lastFailed>>
    /\ UNCHANGED unitVars

\* process: Terminal::new, then send canvas::clear_screen()
Setup(a) ==
    /\ pc[a] = "setup"
    /\ Send(a, ClearScreenBytes)
    /\ \E ok \in BOOLEAN : Step(a, IF ok THEN "register" ELSE "err_handshake")
    /\ UNCHANGED <<lock, peers, received, seq, lastFailed>>
    /\ UNCHANGED unitVars

\* `state.lock().await` of Peer::new, of the loop and of the block after it
Lock(a) ==
    /\ pc[a] \in LockPlaces
    /\ lock = {}
    /\ lock' = {a}
    /\ UNCHANGED <<pc, peers, chan, size, event, canvas, out, received, seq, lastFailed>>
    /\ UNCHANGED unitVars

\* Peer::new under the lock (mpsc::unbounded_channel, add_peer), then Canvas::new
AddPeer(a) ==
    /\ pc[a] = "register"
    /\ lock = {a}
    /\ peers' = add_peer(peers, a)
    /\ Goto(a, "loop", size[a], event[a], RenderBufferNew(size[a][1], size[a][2]),
            [chan EXCEPT ![a] = <<>>])
    /\ lock' = Unlock(a)
    /\ UNCHANGED <<out, received, seq, lastFailed>>
    /\ UNCHANGED unitVars

\* recv, taking the newest queued event first
recv_newest_first(queue) ==
    [event |-> queue[Len(queue)], rest |-> SubSeq(queue, 1, Len(queue) - 1)]

\* the receive end of an unbounded channel: the oldest queued event, and what
\* stays queued
recv(queue) == [event |-> Head(queue), rest |-> Tail(queue)]

\* select! arm `Some(event) = peer.rx.recv()`: handle_event, then
\* `stream.send(..).await.unwrap()`
RecvEvent(a) ==
    /\ pc[a] = "loop"
    /\ chan[a] # <<>>
    /\ LET got  == recv(chan[a])
           r    == handle_event(got.event, canvas[a])
           rest == [chan EXCEPT ![a] = got.rest]
       IN /\ received' = [received EXCEPT ![a] = Append(@, got.event.id)]
          /\ IF r.tag = "Ok"
             THEN /\ Send(a, RenderBytes(r.bytes))
                  /\ \E ok \in BOOLEAN :
                        Goto(a, IF ok THEN "loop" ELSE "panic_send",
                             size[a], event[a], r.buf, rest)
             ELSE /\ Goto(a, "panic_bounds", size[a], event[a], canvas[a], rest)
                  /\ out' = out
    /\ UNCHANGED <<lock, peers, seq, lastFailed>>
    /\ UNCHANGED unitVars

\* what the arm `res = stream.next()` makes of what it read
Classify(res) ==
    IF res.kind = "Ok" THEN handle_input(res.bytes)
    ELSE IF res.kind = "Err" THEN "ReadErr"
    ELSE "Eof"

\* what the task keeps of it when the arm is left: the movement to apply, or
\* why the loop was left; nothing when the loop goes round
Kept(ev) == IF ev \in Moves \cup {"Quit", "Eof"} THEN ev ELSE "NoInput"

\* AfterInput, with Quit going to the teardown past the block that deregisters
AfterInputSkipRemove(ev) ==
    IF ev = "Quit" THEN "teardown"
    ELSE IF ev = "Eof" THEN "deregister"
    ELSE IF ev \in Moves THEN "move"
    ELSE "loop"

\* where the arm `res = stream.next()` goes: Quit and None break, a movement
\* is applied, an unknown input and Some(Err(e)) stay in the loop
AfterInput(ev) ==
    IF ev \in {"Quit", "Eof"} THEN "deregister"
    ELSE IF ev \in Moves THEN "move"
    ELSE "loop"

\* the movements read and not yet applied
Pending == { a \in Addrs : pc[a] = "move" }

\* what the stream may yield in the loop
Inputs == {ReadOk(f) : f \in InputFrames} \cup {ReadErr, ReadEof}

\* select! arm `res = stream.next()` on what the stream yielded
Read(a, res) ==
    /\ pc[a] = "loop"
    /\ Classify(res) \in Moves => seq + Cardinality(Pending) < MaxMoves
    /\ Goto(a, AfterInput(Classify(res)), size[a], Kept(Classify(res)), canvas[a], chan)
    /\ UNCHANGED <<lock, peers, out, received, seq, lastFailed>>

\* select! arm `res = stream.next()`
ReadInput(a) ==
    /\ \E res \in Inputs : Read(a, res)
    /\ UNCHANGED unitVars

\* the same arm, with what the stream yielded kept on record; `odd` tells
\* whether an odd number of reads was made, so that no two reads in a row
\* leave the same record
WatchedReadInput(a) ==
    /\ \E res \in Inputs :
          /\ Read(a, res)
          /\ call' = [op |-> "read", by |-> a, res |-> res,
                      odd |-> IF call.op = "read" THEN ~call.odd ELSE TRUE]
    /\ UNCHANGED <<buf, prev>>

\* `state.lock().await.move_peer(&addr, event).unwrap()` once the lock is held
MovePeer(a) ==
    /\ pc[a] = "move"
    /\ lock = {a}
    /\ IF a \in DOMAIN peers
       THEN LET ps == move_peer(peers, a, event[a])
                ev == [id |-> seq + 1, pos |-> Positions(ps)]
                failed == SendFails(ps, Closed)
            IN /\ peers' = ps
               /\ seq' = seq + 1
               /\ lastFailed' = failed
               /\ Goto(a, IF MoveResult(failed) = "Ok" THEN "loop" ELSE "panic_move",
                       size[a], "NoInput", canvas[a], broadcast(ps, chan, Closed, ev))
       ELSE \* get_peer_data_mut: unwrap of None
            /\ Step(a, "panic_move")
            /\ UNCHANGED <<peers, seq, lastFailed>>
    /\ lock' = Unlock(a)
    /\ UNCHANGED <<out, received>>
    /\ UNCHANGED unitVars

\* the block after the loop: `shared.remove_peer(addr)` once the lock is held
RemovePeer(a) ==
    /\ pc[a] = "deregister"
    /\ lock = {a}
    /\ IF a \in DOMAIN peers
       THEN /\ peers' = remove_peer(peers, a)
            /\ Step(a, "teardown")
       ELSE \* unwrap of None
            /\ peers' = peers
            /\ Step(a, "panic_remove")
    /\ lock' = Unlock(a)
    /\ UNCHANGED <<out, received, seq, lastFailed>>
    /\ UNCHANGED unitVars

\* process: send canvas::restore_screen() and return
Teardown(a) ==
    /\ pc[a] = "teardown"
    /\ Send(a, RestoreScreenBytes)
    /\ \E ok \in BOOLEAN : Step(a, IF ok THEN "ok" ELSE "err_teardown")
    /\ UNCHANGED <<lock, peers, received, seq, lastFailed>>
    /\ UNCHANGED unitVars

Next ==
    \E a \in Addrs :
        \/ Accept(a)
        \/ SendEcho(a)
        \/ SendNaws(a)
        \/ ReadReply(a)
        \/ Setup(a)
        \/ Lock(a)
        \/ AddPeer(a)
        \/ RecvEvent(a)
        \/ ReadInput(a)
        \/ MovePeer(a)
        \/ RemovePeer(a)
        \/ Teardown(a)

Spec == Init /\ [][Next]_vars

(***************************************************************************)
(* The sessions under a fair scheduler: a task that can take a step of its *)
(* own does not wait for ever (tokio runs every task that is ready, select *)
(* picks among the ready branches at random, and the Mutex hands the lock  *)
(* to its waiters in turn). What the clients send (Accept, ReadReply,      *)
(* ReadInput) is under no fairness.                                        *)
(***************************************************************************)
\* the steps of a's task that wait for nothing from its client, but for the
\* arm of select! that receives
Task(a) ==
    \/ SendEcho(a)
    \/ SendNaws(a)
    \/ Setup(a)
    \/ Lock(a)
    \/ AddPeer(a)
    \/ MovePeer(a)
    \/ RemovePeer(a)
    \/ Teardown(a)

\* RecvEvent(a) is enabled
Receivable(a) == pc[a] = "loop" /\ chan[a] # <<>>

\* the step is one of RecvEvent(a): no other step adds to received[a]
Receives(a) == received'[a] # received[a]

\* WF_vars(RecvEvent(a)), written out
ReceiveFairness(a) == []<>(~Receivable(a)) \/ []<><<Receives(a)>>_vars

Fairness == \A a \in Addrs : WF_vars(Task(a)) /\ ReceiveFairness(a)

FairSpec == Spec /\ Fairness

(***************************************************************************)
(* One connection, with every frame its loop reads kept on record.         *)
(***************************************************************************)
Watched == {"a1"}

NextInput ==
    \E a \in Watched :
        \/ Accept(a)
        \/ SendEcho(a)
        \/ SendNaws(a)
        \/ ReadReply(a)
        \/ Setup(a)
        \/ Lock(a)
        \/ AddPeer(a)
        \/ RecvEvent(a)
        \/ WatchedReadInput(a)
        \/ MovePeer(a)
        \/ RemovePeer(a)
        \/ Teardown(a)

SpecInput == Init /\ [][NextInput]_vars

(***************************************************************************)
(* The handshake on its own: get_telnet_size and the match around it, on   *)
(* reply frames of any length and content.                                 *)
(***************************************************************************)
\* what the calls made outside a session's steps leave alone
sessionVars == <<pc, lock, peers, chan, size, event, canvas, out, received, seq, lastFailed>>

\* the bytes a client may put in front of the window size, or send instead
Prefixes == {<<>>, <<255, 251, 31>>, <<7>>}
ShortFrames == {<<>>, <<255, 251, 31>>, <<255, 250, 31, 0, 80, 0, 24, 255>>}
HighBytes == {0, 1, 255}
LowBytes == {0, 24, 80, 255}

\* the reply frames: a window size of any value behind any prefix, nine bytes
\* that are no subnegotiation, and frames shorter than nine bytes
HandshakeFrames ==
    { p \o NawsTrailer(wh, wl, hh, hl) :
        p \in Prefixes, wh \in HighBytes, wl \in LowBytes, hh \in {0, 255}, hl \in LowBytes }
    \cup {<<1, 2, 3, 4, 5, 6, 7, 8, 9>>} \cup ShortFrames

\* get_telnet_size(bytes.as_ref()) on one frame
GetTelnetSize ==
    /\ \E f \in HandshakeFrames :
          call' = [op |-> "get_telnet_size", bytes |-> f, ret |-> get_telnet_size(f)]
    /\ UNCHANGED <<buf, prev>>
    /\ UNCHANGED sessionVars

\* process: `let (width, height) = match stream.next().await { .. }` on what
\* the stream may yield: where the task goes and the size it goes on with
Handshake ==
    /\ \E res \in {ReadOk(f) : f \in HandshakeFrames} \cup {ReadErr, ReadEof} :
          call' = [op |-> "handshake", res |-> res, to |-> ReplyOutcome(res),
                   size |-> NegotiatedSize(res, <<0, 0>>)]
    /\ UNCHANGED <<buf, prev>>
    /\ UNCHANGED sessionVars

NextHandshake == GetTelnetSize \/ Handshake

SpecHandshake == Init /\ [][NextHandshake]_vars

(***************************************************************************)
(* The RenderBuffer on its own: the calls of canvas.rs on buffers of two   *)
(* sizes, with arguments inside and outside the buffer.                    *)
(***************************************************************************)
\* the number of calls that write to the buffer in one run
MaxCalls == 1

BoldRed == [fg |-> "Red", bg |-> "None", bold |-> TRUE, italic |-> FALSE]
Italic == [fg |-> "None", bg |-> "None", bold |-> FALSE, italic |-> TRUE]

BufferSizes == {<<3, 3>>, <<4, 2>>}

\* a buffer with the same cell everywhere
Filled(width, height, cell) ==
    [width |-> width, height |-> height,
     data |-> [i \in 1..(width * height) |-> cell]]

\* the buffers a run starts from: blank, full, and two that differ from blank,
\* and from each other in the style only, in the first cell
StartBuffers(width, height) ==
    { RenderBufferNew(width, height),
      Filled(width, height, [ch |-> "#", style |-> BoldRed]),
      set_char(RenderBufferNew(width, height), "A", None, 0, 0).buf,
      set_char(RenderBufferNew(width, height), "A", Some(Italic), 0, 0).buf }

OptStyles == {None, Some(BoldRed)}
Texts == {<<>>, <<"A", "B">>, <<"A", "B", "C">>, <<"A", "B", "C", "D", "E">>}
Corners == {<<0, 0>>, <<1, 0>>, <<1, 1>>}

InitBuffer ==
    /\ InitSessions
    /\ \E dims \in BufferSizes :
          /\ buf \in StartBuffers(dims[1], dims[2])
          /\ prev \in StartBuffers(dims[1], dims[2])
    /\ call = [op |-> "new", n |-> 0]

\* a call that writes to the buffer: what it was called on and what it gave
Wrote(op, args, r) ==
    /\ buf' = r.buf
    /\ call' = [op |-> op, n |-> call.n + 1, args |-> args, before |-> buf, tag |-> r.tag]

SetChar ==
    /\ call.n < MaxCalls
    /\ \E ch \in {"B"}, style \in OptStyles, x \in {0, 2, 3}, y \in {0, 1, 3} :
          Wrote("set_char", [ch |-> ch, style |-> style, x |-> x, y |-> y],
                Then([tag |-> "Ok", buf |-> buf], ch, style, x, y))
    /\ UNCHANGED prev
    /\ UNCHANGED sessionVars

SetText ==
    /\ call.n < MaxCalls
    /\ \E text \in Texts, style \in OptStyles, x \in {0, 1}, y \in {0, 3} :
          Wrote("set_text", [text |-> text, style |-> style, x |-> x, y |-> y],
                set_text(buf, text, style, x, y))
    /\ UNCHANGED prev
    /\ UNCHANGED sessionVars

DrawBorder ==
    /\ call.n < MaxCalls
    /\ \E at \in Corners, width \in 0..3, height \in 0..3, build \in Builds :
          Wrote("draw_border",
                [x |-> at[1], y |-> at[2], width |-> width, height |-> height,
                 style |-> None, build |-> build],
                draw_border(buf, at[1], at[2], width, height, None, build))
    /\ UNCHANGED prev
    /\ UNCHANGED sessionVars

Clear ==
    /\ call.n < MaxCalls
    /\ Wrote("clear", << >>, [tag |-> "Ok", buf |-> clear(buf)])
    /\ UNCHANGED prev
    /\ UNCHANGED sessionVars

\* Canvas::redraw: `let old_buffer = self.buffer.clone()`
Clone ==
    /\ prev' = buf
    /\ call' = [op |-> "clone", n |-> call.n]
    /\ UNCHANGED buf
    /\ UNCHANGED sessionVars

\* Canvas::redraw: `let diff = self.buffer.diff(&old_buffer)`
Diff ==
    /\ call' = [op |-> "diff", n |-> call.n, ret |-> diff(buf, prev)]
    /\ UNCHANGED <<buf, prev>>
    /\ UNCHANGED sessionVars

NextBuffer == SetChar \/ SetText \/ DrawBorder \/ Clear \/ Clone \/ Diff

SpecBuffer == InitBuffer /\ [][NextBuffer]_vars

(***************************************************************************)
(* What the properties below speak of.                                     *)
(***************************************************************************)
\* the step is a Shared::move_peer that produced a Room Event
MoveStep == seq' = seq + 1

\* the task holding the lock (the acting peer of a MoveStep)
Actor == CHOOSE a \in Addrs : lock = {a}

\* the Room Event a MoveStep produced, as the acting peer's channel got it
Produced == chan'[Actor][Len(chan'[Actor])]

\* the task is in its session loop or on its way out of it, still registered
Running(a) == pc[a] \in {"loop", "move", "deregister"}

\* remove_peer(a) has completed
Removed(a) == pc[a] \in {"teardown", "ok", "err_teardown"}

\* the ids of the events in a queue
Ids(queue) == [i \in 1..Len(queue) |-> queue[i].id]

\* the events peer a got and has still to get, oldest first
History(a) == received[a] \o Ids(chan[a])

Increasing(ids) == \A i, j \in DOMAIN ids : i < j => ids[i] < ids[j]

\* how often an output of this kind was sent
Count(log, kind) == Cardinality({i \in DOMAIN log : log[i].kind = kind})

\* the position the movement rule of the specification gives
Clamped(position, input) ==
    <<IF input = "MoveLeft" THEN (IF position[1] = 0 THEN 0 ELSE position[1] - 1)
      ELSE IF input = "MoveRight" THEN position[1] + 1
      ELSE position[1],
      IF input = "MoveUp" THEN (IF position[2] = 0 THEN 0 ELSE position[2] - 1)
      ELSE IF input = "MoveDown" THEN position[2] + 1
      ELSE position[2]>>

\* the collection holds exactly one position per peer of the map ps
OnePerPeer(pos, ps) ==
    /\ BagCardinality(pos) = Cardinality(DOMAIN ps)
    /\ \A p \in BagToSet(pos) :
          CopiesIn(p, pos) = Cardinality({a \in DOMAIN ps : ps[a].position = p})

(***************************************************************************)
(* C1: every move_peer by a registered peer A enqueues exactly one Room    *)
(* Event on the channel of every registered peer, A included; every copy   *)
(* is the same collection with one position per registered peer: A's       *)
(* position after the move, every other position unchanged.                *)
(***************************************************************************)
C1_EveryRegisteredPeerGetsTheEvent ==
    [][MoveStep =>
        /\ DOMAIN peers' = DOMAIN peers
        /\ peers'[Actor].position = Clamped(peers[Actor].position, event[Actor])
        /\ \A p \in DOMAIN peers \ {Actor} : peers'[p] = peers[p]
        /\ OnePerPeer(Produced.pos, peers')
        /\ \A p \in DOMAIN peers : chan'[p] = Append(chan[p], Produced)]_vars

(***************************************************************************)
(* C2: whenever a session has terminated, for whatever reason, its peer    *)
(* has been removed from World State: no terminated session is left        *)
(* registered as a target of later broadcasts.                             *)
(***************************************************************************)
C2_TerminatedIsDeregistered ==
    \A a \in Addrs : pc[a] \in Terminated => a \notin DOMAIN peers

(***************************************************************************)
(* C3: applying a Room Event to a session's Render Buffer never writes a   *)
(* coordinate outside the negotiated width x height: no event queued for   *)
(* a session holds such a position and coord_to_idx never panics.          *)
(***************************************************************************)
C3_NoOutOfBounds ==
    \A a \in Addrs :
        /\ pc[a] # "panic_bounds"
        /\ pc[a] = "loop" =>
              \A i \in DOMAIN chan[a] : \A p \in BagToSet(chan[a][i].pos) :
                  p[1] < size[a][1] /\ p[2] < size[a][2]

(***************************************************************************)
(* C4: a session that is registered and running gets the Room Events of    *)
(* its channel in the order World State produced them, none lost, doubled  *)
(* or reordered; the ids any session got increase, so two sessions see     *)
(* their common events in the same order; and a move_peer that holds the   *)
(* lock is never blocked by what is queued for a slow consumer.            *)
(***************************************************************************)
C4_EventsArriveInOrder ==
    /\ [](\A a \in Addrs : Increasing(History(a)))
    /\ [](\A a \in Addrs : (pc[a] = "move" /\ lock = {a}) => ENABLED MovePeer(a))
    /\ [][\A a \in Addrs :
            (Running(a) /\ Running(a)' /\ a \in DOMAIN peers) =>
                History(a)' = IF MoveStep THEN Append(History(a), seq') ELSE History(a)]_vars

\* two sessions got both events, one after the other
C4_Witness ==
    \E a, b \in Addrs :
        a # b /\ received[a] = <<1, 2>> /\ received[b] = <<1, 2>>
              /\ pc[a] = "loop" /\ pc[b] = "loop"

(***************************************************************************)
(* C5: a move_peer whose broadcast targets a peer with a closed receiver   *)
(* does not fail: the acting peer's position is updated, move_peer returns *)
(* Ok (the acting session goes on with its loop), every other registered   *)
(* peer with an open receiver gets the event, and no other session is      *)
(* touched.                                                                *)
(***************************************************************************)
C5_ClosedReceiverIsHarmless ==
    [][(MoveStep /\ DOMAIN peers \cap Closed # {}) =>
        /\ peers'[Actor].position = Clamped(peers[Actor].position, event[Actor])
        /\ pc'[Actor] = "loop"
        /\ lock' = {}
        /\ \A p \in DOMAIN peers \ Closed : chan'[p] = Append(chan[p], Produced)
        /\ \A p \in Addrs \ {Actor} : pc'[p] = pc[p] /\ canvas'[p] = canvas[p]]_vars

\* the last broadcast had a failed send, and a running session got its event
C5_Witness ==
    /\ lastFailed # {}
    /\ lastFailed \subseteq DOMAIN peers
    /\ \E q \in Addrs \ lastFailed :
          /\ pc[q] = "loop"
          /\ chan[q] # <<>>
          /\ chan[q][Len(chan[q])].id = seq

(***************************************************************************)
(* C6: after remove_peer(P) has completed, P is no longer in the map,      *)
(* every Room Event produced later has exactly one position per peer still *)
(* registered (none for P), and P's channel gets no further event.         *)
(***************************************************************************)
C6_RemovedPeerIsGone ==
    /\ [](\A p \in Addrs : Removed(p) => p \notin DOMAIN peers)
    /\ [][\A p \in Addrs :
            (MoveStep /\ Removed(p)) =>
                /\ p \notin DOMAIN peers'
                /\ OnePerPeer(Produced.pos, peers')
                /\ BagCardinality(Produced.pos) = Cardinality({q \in Addrs : q \in DOMAIN peers /\ ~Removed(q)})
                /\ chan'[p] = chan[p]]_vars

\* P got an event while registered, was removed, and another peer's later
\* event holds a single position
C6_Witness ==
    \E p, q \in Addrs :
        /\ p # q
        /\ Removed(p)
        /\ received[p] # <<>>
        /\ \E i \in DOMAIN chan[q] :
              /\ \A j \in DOMAIN received[p] : chan[q][i].id > received[p][j]
              /\ BagCardinality(chan[q][i].pos) = 1

(***************************************************************************)
(* C7: a session that read Quit forwards no action to World State and      *)
(* leaves its loop; it removes its own peer once and only then sends the   *)
(* teardown sequence, once and as its last output; after Quit was read no  *)
(* movement of this session is applied and no frame is sent.               *)
(***************************************************************************)
C7_QuitDeregistersThenTearsDown ==
    /\ [](\A a \in Addrs :
            /\ event[a] = "Quit" => pc[a] \in {"deregister", "teardown"}
            /\ (event[a] = "Quit" /\ pc[a] = "deregister") =>
                  a \in DOMAIN peers /\ Count(out[a], "teardown") = 0
            /\ (event[a] = "Quit" /\ pc[a] = "teardown") =>
                  a \notin DOMAIN peers /\ Count(out[a], "teardown") = 0
            /\ Count(out[a], "teardown") <= 1
            /\ Count(out[a], "teardown") = 1 =>
                  /\ out[a][Len(out[a])] = RestoreScreenBytes
                  /\ pc[a] \in {"ok", "err_teardown"}
                  /\ a \notin DOMAIN peers)
    /\ [][\A a \in Addrs :
            /\ (event[a] # "Quit" /\ event'[a] = "Quit") =>
                  /\ pc[a] = "loop" /\ pc'[a] = "deregister"
                  /\ UNCHANGED <<peers, chan, seq, out, canvas>>
            /\ event[a] = "Quit" =>
                  /\ MoveStep => Actor # a
                  /\ a \in DOMAIN peers' => peers'[a] = peers[a]
                  /\ \/ out'[a] = out[a] /\ pc'[a] \in {"deregister", "teardown"}
                     \/ /\ pc[a] = "teardown"
                        /\ out'[a] = Append(out[a], RestoreScreenBytes)
                        /\ pc'[a] \in {"ok", "err_teardown"}]_vars

\* a session that read Quit has removed its peer and is about to send the
\* teardown sequence, after it had rendered an event
C7_Witness ==
    \E a \in Addrs :
        /\ event[a] = "Quit"
        /\ pc[a] = "teardown"
        /\ a \notin DOMAIN peers
        /\ Count(out[a], "frame") > 0

(***************************************************************************)
(* C8: the lock on World State is held only by a task that is in add_peer, *)
(* move_peer or remove_peer, never by one that reads or writes its         *)
(* connection or waits on its channel; a holder does nothing but that call *)
(* and releases the lock with it, so a session whose peers all sit in      *)
(* network I/O can always apply its action.                                *)
(***************************************************************************)
C8_LockOnlyAroundWorldStateCalls ==
    /\ [](\A a \in Addrs : lock = {a} => pc[a] \in LockPlaces)
    /\ [](\A a \in Addrs :
            (pc[a] \in LockPlaces /\ \A b \in Addrs \ {a} : pc[b] \notin LockPlaces) =>
                ENABLED (Lock(a) \/ AddPeer(a) \/ MovePeer(a) \/ RemovePeer(a)))
    /\ [][\A a \in Addrs :
            /\ (lock = {a} /\ lock' = {a}) =>
                  pc'[a] = pc[a] /\ out'[a] = out[a] /\ received'[a] = received[a]
            /\ (lock = {a} /\ lock' # {a}) =>
                  /\ lock' = {}
                  /\ pc'[a] \notin LockPlaces
                  /\ out'[a] = out[a] /\ received'[a] = received[a]
            /\ (peers' # peers /\ lock # {a}) =>
                  (a \in DOMAIN peers <=> a \in DOMAIN peers')
                  /\ (a \in DOMAIN peers => peers'[a] = peers[a])]_vars

\* one task holds the lock for its move_peer while another sits in its loop
\* with an event to render
C8_Witness ==
    \E a, b \in Addrs :
        a # b /\ lock = {a} /\ pc[a] = "move" /\ pc[b] = "loop" /\ chan[b] # <<>>

(***************************************************************************)
(* C9: move_peer moves the acting peer by the rule: MoveUp decrements y    *)
(* unless y = 0, MoveLeft decrements x unless x = 0, MoveDown adds 1 to y, *)
(* MoveRight adds 1 to x, without upper clamp; the other axis and the      *)
(* other peers stay as they are and no coordinate gets negative. From      *)
(* (0,0), MoveUp then MoveLeft stays at (0,0), MoveDown then MoveRight     *)
(* reaches (1,1). A newly added peer is at (0,0) in stage Playing.         *)
(***************************************************************************)
C9_MovementRule ==
    /\ [](/\ NewPosition(NewPosition(<<0, 0>>, "MoveUp"), "MoveLeft") = <<0, 0>>
          /\ NewPosition(NewPosition(<<0, 0>>, "MoveDown"), "MoveRight") = <<1, 1>>
          /\ \A a \in DOMAIN peers :
                peers[a].position[1] >= 0 /\ peers[a].position[2] >= 0)
    /\ [][/\ MoveStep =>
                LET old == peers[Actor].position
                    new == peers'[Actor].position
                    input == event[Actor]
                IN /\ input \in Moves
                   /\ input = "MoveUp" =>
                         new = <<old[1], IF old[2] = 0 THEN 0 ELSE old[2] - 1>>
                   /\ input = "MoveLeft" =>
                         new = <<IF old[1] = 0 THEN 0 ELSE old[1] - 1, old[2]>>
                   /\ input = "MoveDown" => new = <<old[1], old[2] + 1>>
                   /\ input = "MoveRight" => new = <<old[1] + 1, old[2]>>
                   /\ peers'[Actor].state = peers[Actor].state
                   /\ \A p \in DOMAIN peers \ {Actor} : peers'[p] = peers[p]
          /\ \A a \in Addrs :
                (a \notin DOMAIN peers /\ a \in DOMAIN peers') =>
                    peers'[a] = [state |-> "Playing", position |-> <<0, 0>>]]_vars

\* a peer has moved down and right to (1,1)
C9_Witness ==
    \E a \in DOMAIN peers : peers[a].position = <<1, 1>> /\ seq = 2

(***************************************************************************)
(* C10: when the handshake reads no frame, or an error, in reply to its    *)
(* requests, it fails with the negotiation failure and the connection      *)
(* never becomes a session: the peer is never registered, the screen setup *)
(* is never sent and no frame is rendered. The two requests are written,   *)
(* echo / character mode first and window size second, before the reply is *)
(* read.                                                                   *)
(***************************************************************************)
C10_NoReplyNoSession ==
    /\ [](/\ ReplyOutcome(ReadErr) = "err_negotiation"
          /\ ReplyOutcome(ReadEof) = "err_negotiation")
    /\ [](\A a \in Addrs :
            /\ pc[a] = "err_negotiation" =>
                  /\ a \notin DOMAIN peers
                  /\ out[a] = <<EchoRequest, NawsRequest>>
                  /\ received[a] = <<>>
                  /\ chan[a] = <<>>
            /\ pc[a] = "read_reply" => out[a] = <<EchoRequest, NawsRequest>>
            /\ Len(out[a]) >= 1 => out[a][1] = EchoRequest
            /\ Len(out[a]) >= 2 => out[a][2] = NawsRequest)
    /\ [][\A a \in Addrs :
            /\ pc[a] = "err_negotiation" => UNCHANGED <<pc[a], out[a], received[a], chan[a]>>
            /\ pc'[a] = "err_negotiation" => pc[a] \in {"read_reply", "err_negotiation"}
            /\ (pc[a] = "read_reply" /\ pc'[a] = "setup") =>
                  \E f \in ReplyFrames :
                      /\ get_telnet_size(f).tag = "Ok"
                      /\ size'[a] = <<get_telnet_size(f).width, get_telnet_size(f).height>>
                      /\ size'[a] # size[a]]_vars

\* a connection whose handshake failed for want of a reply, beside a session
C10_Witness ==
    \E a, b \in Addrs : pc[a] = "err_negotiation" /\ pc[b] = "loop"

(***************************************************************************)
(* C11: for every reply frame, of any length and content, the handshake    *)
(* either goes on with a width and a height that are both positive or      *)
(* returns an error; it never panics and never goes on with a zero         *)
(* dimension.                                                              *)
(***************************************************************************)
C11_HandshakeNeverCrashesNorYieldsZero ==
    call.op = "handshake" =>
        /\ call.to \in {"setup", "err_negotiation"}
        /\ call.to = "setup" => call.size[1] \in 1..65535 /\ call.size[2] \in 1..65535

(***************************************************************************)
(* C12: for every reply frame of at least 9 bytes get_telnet_size returns  *)
(* Ok with width = 256 * t[3] + t[4] and height = 256 * t[5] + t[6] of the *)
(* last nine bytes t (indices from 0), both within 16 bits, whatever bytes *)
(* precede them; the bytes 00 50 and 00 18 (hexadecimal) give (80, 24).    *)
(***************************************************************************)
Trailer(bytes) == SubSeq(bytes, Len(bytes) - 8, Len(bytes))

C12_SizeIsBigEndianOfTrailer ==
    /\ call.op = "get_telnet_size" /\ Len(call.bytes) >= 9 =>
          LET t == Trailer(call.bytes)
          IN /\ call.ret = [tag |-> "Ok", width |-> 256 * t[4] + t[5],
                            height |-> 256 * t[6] + t[7]]
             /\ call.ret.width \in 0..65535 /\ call.ret.height \in 0..65535
             /\ \A g \in HandshakeFrames :
                   Len(g) >= 9 /\ Trailer(g) = t => get_telnet_size(g) = call.ret
    /\ call.op = "get_telnet_size" /\ Len(call.bytes) >= 9
          /\ SubSeq(Trailer(call.bytes), 4, 7) = <<0, 80, 0, 24>> =>
          call.ret.width = 80 /\ call.ret.height = 24

C12_Witness ==
    /\ call.op = "get_telnet_size"
    /\ Len(call.bytes) > 9
    /\ SubSeq(Trailer(call.bytes), 4, 7) = <<1, 255, 255, 80>>
    /\ call.ret = [tag |-> "Ok", width |-> 511, height |-> 65360]

(***************************************************************************)
(* C14: for two buffers of the same dimensions, diff returns exactly one   *)
(* change for each coordinate whose cell differs in its character or in    *)
(* any field of its style, carrying the cell of the current buffer, and    *)
(* none for a coordinate whose cells are equal; the changes are in strict  *)
(* row-major order. So the diff against an identical buffer is empty, and  *)
(* a blank 3x3 buffer after set_text("ABC", 0, 0), diffed against the      *)
(* blank buffer, gives (0,0,'A'), (1,0,'B'), (2,0,'C') in this order.      *)
(***************************************************************************)
\* the cell of b at (x, y), read off the data
CellOf(b, x, y) == b.data[y * b.width + x + 1]

Coords(b) == (0..(b.width - 1)) \X (0..(b.height - 1))

Differs(xy) ==
    \/ CellOf(buf, xy[1], xy[2]).ch # CellOf(prev, xy[1], xy[2]).ch
    \/ \E field \in {"fg", "bg", "bold", "italic"} :
          CellOf(buf, xy[1], xy[2]).style[field] # CellOf(prev, xy[1], xy[2]).style[field]

RowMajor(changes) ==
    \A i, j \in 1..Len(changes) :
        i < j => \/ changes[i].y < changes[j].y
                 \/ changes[i].y = changes[j].y /\ changes[i].x < changes[j].x

AbcAtOrigin == set_text(RenderBufferNew(3, 3), <<"A", "B", "C">>, None, 0, 0).buf

C14_DiffIsExactlyTheChangedCells ==
    call.op = "diff" /\ buf.width = prev.width /\ buf.height = prev.height =>
        /\ call.ret.tag = "Ok"
        /\ LET changes == call.ret.changes
           IN /\ \A xy \in Coords(buf) :
                    Cardinality({ i \in 1..Len(changes) :
                                    changes[i].x = xy[1] /\ changes[i].y = xy[2] })
                        = IF Differs(xy) THEN 1 ELSE 0
              /\ \A i \in 1..Len(changes) :
                    /\ <<changes[i].x, changes[i].y>> \in Coords(buf)
                    /\ changes[i].cell = CellOf(buf, changes[i].x, changes[i].y)
              /\ RowMajor(changes)
              /\ buf = prev => changes = <<>>
              /\ buf = AbcAtOrigin /\ prev = RenderBufferNew(3, 3) =>
                    changes = << [cell |-> [ch |-> "A", style |-> DefaultStyle], x |-> 0, y |-> 0],
                                 [cell |-> [ch |-> "B", style |-> DefaultStyle], x |-> 1, y |-> 0],
                                 [cell |-> [ch |-> "C", style |-> DefaultStyle], x |-> 2, y |-> 0] >>

C14_Witness ==
    /\ call.op = "diff"
    /\ buf = AbcAtOrigin
    /\ prev = RenderBufferNew(3, 3)
    /\ Len(call.ret.changes) = 3

(***************************************************************************)
(* C15: set_text(text, style, x, y) returns an error and leaves every cell *)
(* as it was whenever x + length(text) > width; when x + length(text) <=   *)
(* width, the exact fit included, and y is in bounds, it returns Ok and    *)
(* has written the i-th character with the given style at (x + i, y) for   *)
(* each i < length(text), and left every other cell as it was.             *)
(***************************************************************************)
Given(style) == unwrap_or(style, DefaultStyle)

C15_SetTextWritesItsCellsOrNothing ==
    call.op = "set_text" =>
        LET a == call.args
            b == call.before
            n == Len(a.text)
        IN /\ a.x + n > b.width => call.tag = "Err" /\ buf = b
           /\ a.x + n <= b.width /\ a.y < b.height =>
                 /\ call.tag = "Ok"
                 /\ buf.width = b.width /\ buf.height = b.height
                 /\ \A xy \in Coords(b) :
                       CellOf(buf, xy[1], xy[2]) =
                           IF xy[2] = a.y /\ xy[1] >= a.x /\ xy[1] < a.x + n
                           THEN [ch |-> a.text[xy[1] - a.x + 1], style |-> Given(a.style)]
                           ELSE CellOf(b, xy[1], xy[2])

C15_Witness ==
    /\ call.op = "set_text"
    /\ call.tag = "Ok"
    /\ call.args.text = <<"A", "B">>
    /\ call.args.x + 2 = buf.width
    /\ call.args.style = Some(BoldRed)
    /\ CellOf(call.before, 2, 0).ch = " "
    /\ CellOf(buf, 2, 0) = [ch |-> "B", style |-> BoldRed]

(***************************************************************************)
(* C16: set_char(ch, style, x, y) with x < width and y < height returns Ok *)
(* and leaves the written character and style (the default style when none *)
(* is given) in the cell at (x, y) and every other cell as it was; with    *)
(* x >= width or y >= height, as (3, 20) in a 10x10 buffer or x >= width   *)
(* with y < height, it panics and changes no cell.                         *)
(***************************************************************************)
C16_SetCharWritesOneCellOrPanics ==
    /\ call.op = "set_char" =>
          LET a == call.args
              b == call.before
          IN /\ a.x < b.width /\ a.y < b.height =>
                   /\ call.tag = "Ok"
                   /\ buf.width = b.width /\ buf.height = b.height
                   /\ \A xy \in Coords(b) :
                         CellOf(buf, xy[1], xy[2]) =
                             IF xy = <<a.x, a.y>>
                             THEN [ch |-> a.ch, style |-> Given(a.style)]
                             ELSE CellOf(b, xy[1], xy[2])
             /\ a.x >= b.width \/ a.y >= b.height => call.tag = "Panic" /\ buf = b
    /\ set_char(RenderBufferNew(10, 10), "A", None, 3, 20).tag = "Panic"

C16_Witness ==
    /\ call.op = "set_char"
    /\ call.tag = "Ok"
    /\ call.args.style = None
    /\ <<call.args.x, call.args.y>> = <<2, 1>>
    /\ CellOf(call.before, 2, 1) = [ch |-> "#", style |-> BoldRed]
    /\ CellOf(buf, 2, 1) = [ch |-> "B", style |-> DefaultStyle]

\* a call of set_char outside the buffer, in a row of the buffer
C16_WitnessOutside ==
    /\ call.op = "set_char"
    /\ call.tag = "Panic"
    /\ call.args.x >= buf.width
    /\ call.args.y < buf.height

(***************************************************************************)
(* C17: draw_border(x, y, w, h, style), for all x, y, w and h, w or h of 0 *)
(* or 1 included: when the rectangle does not fit (x + w > width or        *)
(* y + h > height) it returns an error with the buffer as it was;          *)
(* otherwise it returns Ok, with corner glyphs at the four corners of      *)
(* [x, x+w) x [y, y+h), edge glyphs on the rest of its perimeter, and      *)
(* every cell outside the rectangle and in its interior as it was; it      *)
(* never panics.                                                           *)
(***************************************************************************)
CornerGlyphs == {TopLeft, TopRight, BottomRight, BottomLeft}

InRect(xy, a) ==
    /\ xy[1] >= a.x /\ xy[1] < a.x + a.width
    /\ xy[2] >= a.y /\ xy[2] < a.y + a.height

OnPerimeter(xy, a) ==
    /\ InRect(xy, a)
    /\ \/ xy[1] \in {a.x, a.x + a.width - 1}
       \/ xy[2] \in {a.y, a.y + a.height - 1}

IsCorner(xy, a) ==
    /\ InRect(xy, a)
    /\ xy[1] \in {a.x, a.x + a.width - 1}
    /\ xy[2] \in {a.y, a.y + a.height - 1}

C17_DrawBorderFramesOrRefuses ==
    call.op = "draw_border" =>
        LET a == call.args
            b == call.before
        IN /\ call.tag # "Panic"
           /\ a.x + a.width > b.width \/ a.y + a.height > b.height =>
                 call.tag = "Err" /\ buf = b
           /\ a.x + a.width <= b.width /\ a.y + a.height <= b.height =>
                 /\ call.tag = "Ok"
                 /\ \A xy \in Coords(b) :
                       IF IsCorner(xy, a)
                       THEN CellOf(buf, xy[1], xy[2]).ch \in CornerGlyphs
                       ELSE IF OnPerimeter(xy, a)
                       THEN CellOf(buf, xy[1], xy[2]).ch \in {Horizontal, Vertical}
                       ELSE CellOf(buf, xy[1], xy[2]) = CellOf(b, xy[1], xy[2])

\* C17 for the rectangles that have a cell
C17_HoldsForNonEmptyRectangles ==
    call.op = "draw_border" /\ call.args.width > 0 /\ call.args.height > 0 =>
        C17_DrawBorderFramesOrRefuses

(***************************************************************************)
(* C13: a terminal screen that started blank and applied every change a    *)
(* session emitted, in the order of emission, is cell for cell equal to    *)
(* the session's buffer; after an event is processed the buffer shows '@'  *)
(* at exactly the positions of that event and the default blank cell       *)
(* everywhere else; the frame emitted for it holds one change for each     *)
(* cell that differs from the buffer before, which is the buffer emitted   *)
(* last, and none for any other cell.                                      *)
(***************************************************************************)
\* what a terminal shows in a cell
BlankScreen(wh) ==
    [width |-> wh[1], height |-> wh[2],
     cells |-> [i \in 1..(wh[1] * wh[2]) |->
                  [ch |-> " ", fg |-> "Reset", bg |-> "Reset", attr |-> "NormalIntensity"]]]

\* the terminal applies one change: the cursor goes to the 1-based row and
\* column, the colours and the intensity are set and the character is printed
Paint(screen, cmd) ==
    IF cmd.row \in 1..screen.height /\ cmd.col \in 1..screen.width
    THEN [screen EXCEPT !.cells[(cmd.row - 1) * screen.width + cmd.col] =
             [ch |-> cmd.ch, fg |-> cmd.fg, bg |-> cmd.bg, attr |-> cmd.attr]]
    ELSE screen

RECURSIVE PaintFrom(_, _, _)
PaintFrom(screen, cmds, i) ==
    IF i > Len(cmds) THEN screen ELSE PaintFrom(Paint(screen, cmds[i]), cmds, i + 1)

\* the terminal applies the frames of a connection's output from the i-th on
RECURSIVE Replay(_, _, _)
Replay(screen, log, i) ==
    IF i > Len(log) THEN screen
    ELSE Replay(IF log[i].kind = "frame" THEN PaintFrom(screen, log[i].bytes, 1) ELSE screen,
                log, i + 1)

\* how a terminal shows a cell of the buffer
Shown(cell) ==
    [ch |-> cell.ch,
     fg |-> IF cell.style.fg = "None" THEN "Reset" ELSE cell.style.fg,
     bg |-> IF cell.style.bg = "None" THEN "Reset" ELSE cell.style.bg,
     attr |-> IF cell.style.bold THEN "Bold" ELSE "NormalIntensity"]

HasCanvas(a) == pc[a] \in {"loop", "move", "deregister", "teardown"}

ScreenIsBuffer(a) ==
    LET screen == Replay(BlankScreen(size[a]), out[a], 1)
    IN /\ screen.width = canvas[a].width /\ screen.height = canvas[a].height
       /\ \A xy \in Coords(canvas[a]) :
             screen.cells[xy[2] * screen.width + xy[1] + 1]
                 = Shown(CellOf(canvas[a], xy[1], xy[2]))

\* the session a took an event off its channel, drew it and went on
Rendered(a) == received'[a] # received[a] /\ pc'[a] = "loop"

FrameIsDiff(a) ==
    LET ev    == Head(chan[a])
        frame == out'[a][Len(out'[a])]
    IN /\ Len(out'[a]) = Len(out[a]) + 1
       /\ frame.kind = "frame"
       /\ \A xy \in Coords(canvas[a]) :
             /\ CellOf(canvas'[a], xy[1], xy[2]) =
                   IF xy \in BagToSet(ev.pos)
                   THEN [ch |-> "@", style |-> DefaultStyle]
                   ELSE DefaultCell
             /\ Cardinality({ i \in 1..Len(frame.bytes) :
                                frame.bytes[i].col = xy[1] + 1
                                /\ frame.bytes[i].row = xy[2] + 1 })
                   = IF CellOf(canvas'[a], xy[1], xy[2]) # CellOf(canvas[a], xy[1], xy[2])
                     THEN 1 ELSE 0
       /\ Len(frame.bytes) =
             Cardinality({ xy \in Coords(canvas[a]) :
                 CellOf(canvas'[a], xy[1], xy[2]) # CellOf(canvas[a], xy[1], xy[2]) })
       /\ BagToSet(ev.pos) \subseteq Coords(canvas[a])

C13_ScreenFollowsBuffer ==
    /\ [](\A a \in Addrs : HasCanvas(a) => ScreenIsBuffer(a))
    /\ [][\A a \in Addrs : Rendered(a) => FrameIsDiff(a)]_vars

C13_Witness ==
    \E a \in Addrs :
        /\ pc[a] = "loop"
        /\ Len(received[a]) = 2
        /\ Cardinality(DOMAIN peers) = 2
        /\ CellOf(canvas[a], 0, 0).ch = "@"
        /\ CellOf(canvas[a], 1, 1).ch = "@"
        /\ Len(out[a][Len(out[a])].bytes) = 2

(***************************************************************************)
(* C20: add_peer and remove_peer change only the entry of the named        *)
(* address: every other peer keeps its position and its stage, and no      *)
(* event is put on any channel. So a connect or a disconnect shows only in *)
(* the event of the next movement, which carries one position per peer     *)
(* registered then; until then the queues, the events received, the        *)
(* buffers and the output of every other session are as they were.         *)
(***************************************************************************)
\* the step registers or deregisters a
Registers(a) == a \notin DOMAIN peers /\ a \in DOMAIN peers'
Deregisters(a) == a \in DOMAIN peers /\ a \notin DOMAIN peers'

OnlyEntryChanges(a) ==
    /\ DOMAIN peers' \ {a} = DOMAIN peers \ {a}
    /\ \A b \in DOMAIN peers \ {a} : peers'[b] = peers[b]
    /\ Registers(a) => peers'[a] = [state |-> "Playing", position |-> <<0, 0>>]
    /\ chan' = chan
    /\ seq' = seq
    /\ received' = received
    /\ out' = out
    /\ \A b \in Addrs \ {a} : canvas'[b] = canvas[b] /\ pc'[b] = pc[b]

C20_ConnectAndDisconnectAreSilent ==
    [][/\ \A a \in Addrs : Registers(a) \/ Deregisters(a) => OnlyEntryChanges(a)
       /\ MoveStep => /\ DOMAIN peers' = DOMAIN peers
                      /\ \A p \in DOMAIN Produced.pos :
                            Produced.pos[p] =
                                Cardinality({b \in DOMAIN peers : peers'[b].position = p})
                      /\ \A p \in {peers'[b].position : b \in DOMAIN peers} :
                            p \in DOMAIN Produced.pos]_vars

\* a second peer is registered, and the first session, which has drawn the
\* event of its own movement, still shows one peer only
C20_Witness ==
    \E a, b \in DOMAIN peers :
        /\ a # b
        /\ pc[a] = "loop"
        /\ chan[a] = <<>>
        /\ Len(received[a]) = 1
        /\ peers[a].position # <<0, 0>>
        /\ Cardinality({xy \in Coords(canvas[a]) : CellOf(canvas[a], xy[1], xy[2]).ch = "@"}) = 1
        /\ CellOf(canvas[a], 0, 0).ch = " "

(***************************************************************************)
(* C18: a frame read in the loop is classified by its whole payload: the   *)
(* single byte 'w' is MoveUp, 'a' MoveLeft, 's' MoveDown, 'd' MoveRight,   *)
(* ESC Quit, and every other payload, the empty one and those of several   *)
(* bytes included, is unrecognized. A movement read leads to exactly one   *)
(* move_peer call, for the address of the session that read it; an         *)
(* unrecognized frame changes nothing of the world state, produces no      *)
(* event, emits nothing, and the session stays in its loop.                *)
(***************************************************************************)
\* the classification by the whole payload
ByWholePayload(bytes) ==
    CASE bytes = <<119>> -> "MoveUp"
      [] bytes = <<97>>  -> "MoveLeft"
      [] bytes = <<115>> -> "MoveDown"
      [] bytes = <<100>> -> "MoveRight"
      [] bytes = <<27>>  -> "Quit"
      [] OTHER           -> "Unrecognized"

\* the step is a read of a frame by a
ReadsFrame(a) == call' # call /\ call'.op = "read" /\ call'.by = a /\ call'.res.kind = "Ok"

ActsOnFrame(a) ==
    LET class == ByWholePayload(call'.res.bytes)
    IN /\ pc[a] = "loop"
       /\ class \in Moves => pc'[a] = "move" /\ event'[a] = class
       /\ class = "Quit" => pc'[a] = "deregister" /\ event'[a] = "Quit"
       /\ class = "Unrecognized" => UNCHANGED sessionVars
       /\ UNCHANGED <<peers, chan, out, received, seq>>

\* the movement a has read is pending: it is the frame read last
PendingIsLastRead ==
    \A a \in Addrs :
        pc[a] = "move" =>
            /\ call.op = "read" /\ call.by = a /\ call.res.kind = "Ok"
            /\ event[a] = ByWholePayload(call.res.bytes)
            /\ event[a] \in Moves

\* a pending movement is applied once, by its reader, and is then gone
AppliedOnce(a) ==
    /\ pc[a] = "move" =>
          \/ pc'[a] = "move" /\ event'[a] = event[a] /\ peers' = peers /\ seq' = seq
          \/ /\ MoveStep /\ lock = {a}
             /\ peers' = [peers EXCEPT ![a].position = Clamped(peers[a].position, event[a])]
             /\ pc'[a] \in {"loop", "panic_move"}
             /\ event'[a] = "NoInput"
    /\ pc[a] # "move" /\ pc'[a] = "move" => ReadsFrame(a)

C18_InputIsClassifiedByWholePayload ==
    /\ []PendingIsLastRead
    /\ [][/\ \A a \in Addrs : /\ ReadsFrame(a) => ActsOnFrame(a)
                              /\ AppliedOnce(a)
          /\ MoveStep => \E a \in Addrs : lock = {a} /\ pc[a] = "move"]_vars

C18_Witness ==
    /\ call.op = "read"
    /\ call.by = "a1"
    /\ call.res = ReadOk(<<119, 119>>)
    /\ pc["a1"] = "loop"
    /\ seq = 1
    /\ peers["a1"].position = <<1, 0>>

(***************************************************************************)
(* C19: under a fair scheduler every event put on the channel of a session *)
(* is eventually rendered by that session (its frame emitted), unless the  *)
(* session quits or its connection ends; so a session that stays in its    *)
(* loop ends up with an empty channel, showing the event produced last.    *)
(***************************************************************************)
\* the event with this id is on a's channel
Queued(a, id) == \E i \in 1..Len(chan[a]) : chan[a][i].id = id

\* a took the event with this id off its channel and emitted its frame: the
\* task that panics in handle_event has taken its last event and emitted nothing
RenderedBy(a, id) ==
    \E i \in 1..Len(received[a]) :
        /\ received[a][i] = id
        /\ ~(pc[a] = "panic_bounds" /\ i = Len(received[a]))

\* the client quit or closed the connection, or a write to it failed
Left(a) == pc[a] \in {"deregister", "teardown", "ok", "err_teardown", "panic_remove", "panic_send"}

C19_EveryQueuedEventIsRendered ==
    /\ \A a \in Addrs : \A id \in 1..MaxMoves :
          Queued(a, id) ~> (RenderedBy(a, id) \/ Left(a))
    /\ \A a \in Addrs : <>[](pc[a] = "loop") => <>[](chan[a] = <<>>)

\* C19 but for the session that an event outside its buffer has killed
C19_HoldsUnlessOutOfBounds ==
    \A a \in Addrs : \A id \in 1..MaxMoves :
        Queued(a, id) ~> (RenderedBy(a, id) \/ Left(a) \/ pc[a] = "panic_bounds")

====
